---------------------------- MODULE Spec2Model ----------------------------
(***************************************************************************)
(* Model of Thermo_Physical/stream.py: the material_stream class, its      *)
(* constructor, the closest-value search takeClosest and the mixing        *)
(* operator __add__.                                                       *)
(*                                                                         *)
(* Numbers.  Python floats are modelled by exact arithmetic: flows,        *)
(* enthalpies, temperatures and pressures are integers, fractions and the  *)
(* mixture enthalpy are rationals <<n, d>> in lowest terms with d > 0.     *)
(* Rounding of IEEE doubles is not modelled.                               *)
(*                                                                         *)
(* CoolProp.  The property engine is outside the program; each call into   *)
(* it is answered by a response the environment chooses (er for the point  *)
(* evaluation of the constructor, pe for the phase envelope).              *)
(***************************************************************************)
EXTENDS Integers, Sequences, FiniteSets

VARIABLES
    heap,   \* the material_stream objects alive, in order of creation
    src,    \* history: src[i] = <<>> for a constructed stream, <<a, b>> for heap[a] + heap[b]
    last    \* the most recent call: its inputs, the engine's answers and its outcome

vars == <<heap, src, last>>

---------------------------------------------------------------------------
(* Bounds of the model *)

MaxLen == 3        \* longest list handed to takeClosest in SpecClosest
MaxVal == 3        \* largest list element in SpecClosest
MaxStreams == 3    \* most streams alive at once

---------------------------------------------------------------------------
(* Exact arithmetic on rationals <<n, d>>, d > 0, lowest terms *)

Abs(x) == IF x < 0 THEN -x ELSE x

RECURSIVE GCD(_, _)
GCD(a, b) == IF b = 0 THEN a ELSE GCD(b, a % b)

Rat(n, d) ==
    LET s == IF d < 0 THEN -1 ELSE 1
        g == GCD(Abs(n), Abs(d))
    IN  <<(s * n) \div g, (s * d) \div g>>

RMulInt(r, k) == Rat(r[1] * k, r[2])
RDivInt(r, k) == Rat(r[1], r[2] * k)
RAdd(r, q) == Rat(r[1] * q[2] + q[1] * r[2], r[2] * q[2])
\* x - t and t - x for an integer x and a rational t, and r < q
IntMinusRat(x, t) == Rat(x * t[2] - t[1], t[2])
RatMinusInt(t, x) == Rat(t[1] - x * t[2], t[2])
RLess(r, q) == r[1] * q[2] < q[1] * r[2]
IntLessRat(x, t) == x * t[2] < t[1]

---------------------------------------------------------------------------
(* Python dict: a sequence of <<key, value>> pairs, in insertion order *)

KeySet(d) == {d[i][1] : i \in DOMAIN d}
get(d, k, default) ==
    IF k \in KeySet(d) THEN d[CHOOSE i \in DOMAIN d : d[i][1] = k][2] ELSE default
setitem(d, k, v) ==
    IF k \in KeySet(d)
    THEN [i \in DOMAIN d |-> IF d[i][1] = k THEN <<k, v>> ELSE d[i]]
    ELSE Append(d, <<k, v>>)

RECURSIVE update(_, _)
update(d, e) ==
    IF e = <<>> THEN d ELSE update(setitem(d, Head(e)[1], Head(e)[2]), Tail(e))

---------------------------------------------------------------------------
(* takeClosest, lines 59-78 *)

\* bisect.bisect_left(a, x): the binary search itself, so that its answer on
\* a list that is not sorted is the one Python gives.
RECURSIVE bisect(_, _, _, _)
bisect(a, x, lo, hi) ==
    IF lo < hi
    THEN LET mid == (lo + hi) \div 2
         IN  IF IntLessRat(a[mid + 1], x)
             THEN bisect(a, x, mid + 1, hi)
             ELSE bisect(a, x, lo, mid)
    ELSE lo

bisect_left(a, x) == bisect(a, x, 0, Len(a))

\* line 75: after - myNumber < myNumber - before
AfterIsCloserLE(before, after, myNumber) ==
    ~ RLess(RatMinusInt(myNumber, before), IntMinusRat(after, myNumber))

AfterIsCloser(before, after, myNumber) ==
    RLess(IntMinusRat(after, myNumber), RatMinusInt(myNumber, before))

\* lines 69-78, pos being the insertion point of line 68: the value
\* returned, or the IndexError of myList[0] on an empty list.
closestAt(myList, myNumber, pos) ==
    IF pos = 0
    THEN IF myList = <<>>
         THEN [exc |-> "IndexError"]
         ELSE [exc |-> "none", val |-> myList[1]]
    ELSE IF pos = Len(myList)
    THEN [exc |-> "none", val |-> myList[Len(myList)]]
    ELSE IF AfterIsCloser(myList[pos], myList[pos + 1], myNumber)
    THEN [exc |-> "none", val |-> myList[pos + 1]]
    ELSE [exc |-> "none", val |-> myList[pos]]

takeClosest(myList, myNumber) ==
    closestAt(myList, myNumber, bisect_left(myList, myNumber))

---------------------------------------------------------------------------
(* SpecClosest: takeClosest as a pure function of its two arguments *)

RECURSIVE SeqsUpTo(_, _)
SeqsUpTo(S, n) ==
    IF n = 0 THEN {<<>>}
    ELSE LET shorter == SeqsUpTo(S, n - 1)
         IN  shorter \cup {Append(s, x) : s \in shorter, x \in S}

IsAscending(s) == \A i \in 1..(Len(s) - 1) : s[i] <= s[i + 1]

\* what "Assumes myList is sorted" (line 61) admits
SortedLists == {s \in SeqsUpTo(0..MaxVal, MaxLen) : IsAscending(s)}

\* targets at every element, every midpoint and beyond both ends
Targets == {Rat(n, 2) : n \in (-2)..(2 * MaxVal + 2)}

InitClosest ==
    /\ heap = <<>>
    /\ src = <<>>
    /\ last \in {[op |-> "args", myList |-> s, myNumber |-> t] :
                    s \in SortedLists, t \in Targets}

CallTakeClosest ==
    /\ last.op = "args"
    /\ last' = [op |-> "takeClosest", myList |-> last.myList,
                myNumber |-> last.myNumber,
                out |-> takeClosest(last.myList, last.myNumber)]
    /\ UNCHANGED <<heap, src>>

NextClosest == CallTakeClosest

SpecClosest == InitClosest /\ [][NextClosest]_vars

\* |x - t| as a rational
Dist(x, t) == IF IntLessRat(x, t) THEN RatMinusInt(t, x) ELSE IntMinusRat(x, t)

Elems(s) == {s[i] : i \in DOMAIN s}

\* the smallest element of s among those nearest to t
NearestSmallest(s, t) ==
    LET near == {x \in Elems(s) : \A y \in Elems(s) : ~ RLess(Dist(y, t), Dist(x, t))}
    IN  CHOOSE x \in near : \A y \in near : x <= y

\* C4: on every non-empty ascending list takeClosest returns the smallest of
\* the elements nearest to the target; so the first element for a target at or
\* below it, the last for a target at or above it, the smaller of two
\* equidistant neighbours.
C4_ClosestIsNearestSmallest ==
    (last.op = "takeClosest" /\ last.myList # <<>>) =>
        LET s == last.myList
            t == last.myNumber
        IN  /\ last.out.exc = "none"
            /\ last.out.val = NearestSmallest(s, t)
            /\ (~ IntLessRat(s[1], t) => last.out.val = s[1])
            /\ (~ RLess(t, <<s[Len(s)], 1>>) => last.out.val = s[Len(s)])

\* a tie between two straddling elements was decided (e.g. closest([1,3], 2))
C4_Witness ==
    /\ last.op = "takeClosest"
    /\ last.myList = <<1, 3>>
    /\ last.myNumber = <<2, 1>>
    /\ last.out.val = 1

---------------------------------------------------------------------------
(* The constructor, lines 22-50 *)

\* The engine's answer to one construction.  fail names the first call that
\* raises ("none": no required call does); Vis and cond are the answers to
\* the two optional queries, "error" when the query raises; Hmolar is the
\* molar enthalpy it reports.  Every other number it reports is "num".
EngineCalls ==
    <<"AbstractState", "set_mole_fractions", "update", "Phase", "Q", "Dmass",
      "Dmolar", "Hmass", "Hmolar", "Cpmass", "Cpmolar">>

Answer(fail, Vis, cond, Hmolar) ==
    [fail |-> fail, Vis |-> Vis, cond |-> cond, Hmolar |-> Hmolar]

\* lines 43-50: an optional property, Vis or cond; lines 45-46 and 49-50
\* store the empty list when the query raises
OptionalUnguarded(answer) == answer

Optional(answer) == IF answer = "error" THEN "[]" ELSE answer

\* material_stream(composition, state): the exception it raises, and the
\* object when it raises none.
__init__(composition, state, er) ==
    IF er.fail \in {"AbstractState", "set_mole_fractions"}
    THEN [exc |-> "EngineError"]
    ELSE IF ~ ({"pres", "temp"} \subseteq DOMAIN state)
    THEN [exc |-> "KeyError"]                          \* line 31
    ELSE IF er.fail # "none"
    THEN [exc |-> "EngineError"]                       \* lines 31-42
    ELSE [exc |-> "none",
          obj |-> [composition |-> composition, state |-> state,
                   Phase |-> "num", Q |-> "num", Dmass |-> "num",
                   Dmolar |-> "num", Hmass |-> "num", Hmolar |-> er.Hmolar,
                   Cpmass |-> "num", Cpmolar |-> "num",
                   Vis |-> Optional(er.Vis), cond |-> Optional(er.cond),
                   myList |-> <<>>, myNumber |-> <<>>]]

\* Inputs of the model: compositions and states like those of the
\* demonstration (lines 138-146) in small numbers, a state with a negative
\* flow, the docstring's state (line 18), which has no 'flow' key, and a
\* state with no temperature.
Half == <<1, 2>>
CompAcetone == << <<"Water", <<3, 4>> >>, <<"Acetone", <<1, 4>> >> >>
CompEthanol == << <<"Water", Half>>, <<"Ethanol", Half>> >>
Compositions == {CompAcetone, CompEthanol}

StateHot == [temp |-> 2, pres |-> 2, flow |-> 2]
StateCold == [temp |-> 1, pres |-> 1, flow |-> 1]
StateBack == [temp |-> 1, pres |-> 2, flow |-> -1]
StateNoFlow == [temp |-> 2, pres |-> 1]
StateNoTemp == [pres |-> 1, flow |-> 1]

\* the streams Spec builds: the two of the demonstration, one with a negative
\* flow and one without a flow
LeafInputs ==
    {<<CompAcetone, StateHot>>, <<CompEthanol, StateCold>>,
     <<CompEthanol, StateBack>>, <<CompAcetone, StateNoFlow>>}

\* the constructions of SpecConstruct
ConstructInputs == Compositions \X {StateHot, StateNoFlow, StateNoTemp}

\* every way one construction can go
ConstructAnswers ==
    {Answer(EngineCalls[i], "num", "num", 0) : i \in DOMAIN EngineCalls}
        \cup {Answer("none", v, c, 0) : v \in {"num", "error"}, c \in {"num", "error"}}

\* The caller is a script like lines 136-169: an exception that reaches it
\* ends the run.
Running == last.exc = "none"

Construct(Inputs, Answers) ==
    /\ Running
    /\ Len(heap) < MaxStreams
    /\ \E in \in Inputs, er \in Answers :
          \E r \in {__init__(in[1], in[2], er)} :
              /\ heap' = IF r.exc = "none" THEN Append(heap, r.obj) ELSE heap
              /\ src' = IF r.exc = "none" THEN Append(src, <<>>) ELSE src
              /\ last' = [op |-> "init", composition |-> in[1],
                          state |-> in[2], er |-> er, exc |-> r.exc,
                          ret |-> IF r.exc = "none" THEN Len(heap) + 1 ELSE 0]

InitEmpty ==
    /\ heap = <<>>
    /\ src = <<>>
    /\ last = [op |-> "none", exc |-> "none"]

ConstructAny == Construct(ConstructInputs, ConstructAnswers)

NextConstruct == ConstructAny

SpecConstruct == InitEmpty /\ [][NextConstruct]_vars

RequiredFields == {"Phase", "Q", "Dmass", "Dmolar", "Hmass", "Hmolar", "Cpmass", "Cpmolar"}

\* C8: a construction in which the engine fails on nothing but viscosity and
\* thermal conductivity returns a stream whose failing optional fields, and
\* only those, are absent ([]) and whose other properties are all populated;
\* a construction in which anything else fails raises and returns no stream.
C8_ConstructionErrorPolicy ==
    last.op = "init" =>
        IF last.er.fail = "none" /\ {"pres", "temp"} \subseteq DOMAIN last.state
        THEN /\ last.exc = "none"
             /\ last.ret = Len(heap)
             /\ LET s == heap[last.ret]
                IN  /\ s.composition = last.composition
                    /\ s.state = last.state
                    /\ (s.Vis = "[]") <=> (last.er.Vis = "error")
                    /\ (s.cond = "[]") <=> (last.er.cond = "error")
                    /\ \A f \in RequiredFields \ {"Hmolar"} : s[f] = "num"
                    /\ s.Hmolar = last.er.Hmolar
        ELSE /\ last.exc # "none"
             /\ last.ret = 0

\* the engine failed on viscosity alone and the stream was still built
C8_Witness ==
    /\ last.op = "init"
    /\ last.exc = "none"
    /\ last.er.Vis = "error"
    /\ last.er.cond = "num"
    /\ heap[last.ret].Vis = "[]"
    /\ heap[last.ret].cond = "num"

---------------------------------------------------------------------------
(* The mixing operator __add__, lines 81-132 *)

\* The engine's answer to lines 117-121.  fail names the call that raises
\* ("none": none does); hmolar_liq and T are the two branches of the envelope
\* it returns.
Envelope(fail, hmolar_liq, T) == [fail |-> fail, hmolar_liq |-> hmolar_liq, T |-> T]

\* lines 89-90: {key: comp * flow for key, comp in composition.items()}
scaled(composition, flow) ==
    [i \in DOMAIN composition |-> <<composition[i][1], RMulInt(composition[i][2], flow)>>]

\* line 97: (first + second)/(new_flow)
MixedFractionMean(first, second, new_flow) == RDivInt(RAdd(first, second), 2)

MixedFraction(first, second, new_flow) == RDivInt(RAdd(first, second), new_flow)

\* lines 91-97, for new_flow # 0
mixed(self_comp, other_comp, new_flow) ==
    LET new == update(self_comp, other_comp)
    IN  [i \in DOMAIN new |->
            <<new[i][1], MixedFraction(get(self_comp, new[i][1], <<0, 1>>),
                                       get(other_comp, new[i][1], <<0, 1>>),
                                       new_flow)>>]

\* lines 100-101: new_state = self.state.copy(); new_state['flow'] = new_flow
WithFlowDropped(state, new_flow) == state

WithFlow(state, new_flow) == [state EXCEPT !.flow = new_flow]

\* lines 103-106: the lower of the two pressures
WithPres(new_state, self, other) ==
    IF self.state.pres <= other.state.pres
    THEN [new_state EXCEPT !.pres = self.state.pres]
    ELSE [new_state EXCEPT !.pres = other.state.pres]

\* line 112
MolarEnthalpy(self, other, new_flow) ==
    Rat(self.Hmolar * self.state.flow + other.Hmolar * other.state.flow, new_flow)

\* line 123: list.index(val), counted from 1
indexLast(list, val) == CHOOSE i \in DOMAIN list : list[i] = val /\ \A j \in DOMAIN list : list[j] = val => j <= i

index(list, val) == CHOOSE i \in DOMAIN list : list[i] = val /\ \A j \in DOMAIN list : list[j] = val => i <= j

\* lines 65-66: takeClosest keeps its arguments on the object it is called on
WithScratch(self, myList, myNumber) ==
    [self EXCEPT !.myList = <<myList>>, !.myNumber = <<myNumber>>]

\* line 124, ind being the index of line 123
setTemp(new_state, pe, ind) ==
    IF ind > Len(pe.T)
    THEN [exc |-> "IndexError", new_state |-> new_state]
    ELSE [exc |-> "none", new_state |-> [new_state EXCEPT !.temp = pe.T[ind]]]

\* lines 123-124, tc being the outcome of line 122
located(new_state, pe, tc) ==
    IF tc.exc # "none"
    THEN [exc |-> tc.exc, new_state |-> new_state]
    ELSE setTemp(new_state, pe, index(pe.hmolar_liq, tc.val))

\* lines 122-124 on the envelope the engine returned: the exception raised
\* there, and the state with the temperature set when none is.
resolve(new_state, pe, new_Hmolar) ==
    located(new_state, pe, takeClosest(pe.hmolar_liq, new_Hmolar))

\* lines 88-128, the body of the try block, for operands that have a flow.
\* exc: the exception raised in it ("none": it ran to its end), step: the
\* step of the algorithm that raised it (0: none).  bound: the locals new and
\* new_state that line 132 reads, as far as they were assigned.  self: the
\* left operand afterwards.  asked_pe: whether the engine was asked for the
\* envelope.
Try(exc, step, bound, new, new_state, self, asked_pe) ==
    [exc |-> exc, step |-> step, bound |-> bound, new |-> new,
     new_state |-> new_state, self |-> self, asked_pe |-> asked_pe]

\* the end of the try block, t being the outcome of lines 122-124
tried(self, new, t) ==
    Try(t.exc, IF t.exc = "none" THEN 0 ELSE 5, {"new", "new_state"}, new,
        t.new_state, self, TRUE)

\* lines 117-124
tryFrom117(self, pe, new, new_state, new_Hmolar) ==
    IF pe.fail # "none"
    THEN Try("EngineError", 5, {"new", "new_state"}, new, new_state, self, TRUE)
    ELSE tried(WithScratch(self, pe.hmolar_liq, new_Hmolar), new,
               resolve(new_state, pe, new_Hmolar))

\* lines 112-124
tryFrom112(self, other, new_flow, pe, new, new_state) ==
    IF new_flow = 0
    THEN Try("ZeroDivisionError", 4, {"new", "new_state"}, new, new_state, self, FALSE)
    ELSE tryFrom117(self, pe, new, new_state, MolarEnthalpy(self, other, new_flow))

\* lines 91-124; line 97 divides by new_flow once for every key
tryFrom91(self, other, new_flow, pe, self_comp, other_comp) ==
    IF new_flow = 0 /\ update(self_comp, other_comp) # <<>>
    THEN Try("ZeroDivisionError", 2, {"new"}, update(self_comp, other_comp),
             <<>>, self, FALSE)
    ELSE tryFrom112(self, other, new_flow, pe,
                    IF new_flow = 0 THEN <<>> ELSE mixed(self_comp, other_comp, new_flow),
                    WithPres(WithFlow(self.state, new_flow), self, other))

tryBlock(self, other, new_flow, pe) ==
    tryFrom91(self, other, new_flow, pe,
              scaled(self.composition, self.state.flow),
              scaled(other.composition, other.state.flow))

\* lines 129-130: what is left of the exception after "except: ValueError"
exceptReraises(exc) == exc

except(exc) == "none"

\* self + other.  exc: the exception that reaches the caller ("none": a
\* stream is returned, obj).  caught: the exception the except clause
\* discarded, step: the step it was raised in.  self: the left operand
\* afterwards.  call: the arguments of line 132's constructor call, when it is
\* made.  asked_pe, asked_er: which of the engine's answers were used.
Outcome(exc, caught, step, self, asked_pe, call, obj) ==
    [exc |-> exc, caught |-> caught, step |-> step, self |-> self,
     asked_pe |-> asked_pe, asked_er |-> call # <<>>, call |-> call, obj |-> obj]

\* line 132, r being the outcome of the constructor
returned(t, r) ==
    Outcome(r.exc, t.exc, t.step, t.self, t.asked_pe,
            <<[composition |-> t.new, state |-> t.new_state]>>,
            IF r.exc = "none" THEN <<r.obj>> ELSE <<>>)

\* lines 129-132, t being the outcome of the try block
afterTry(t, er) ==
    IF except(t.exc) # "none"
    THEN Outcome(except(t.exc), "none", t.step, t.self, t.asked_pe, <<>>, <<>>)
    ELSE IF "new_state" \notin t.bound
    THEN Outcome("UnboundLocalError", t.exc, t.step, t.self, t.asked_pe, <<>>, <<>>)
    ELSE returned(t, __init__(t.new, t.new_state, er))

__add__(self, other, pe, er) ==
    IF ~ ("flow" \in DOMAIN self.state /\ "flow" \in DOMAIN other.state)
    THEN Outcome("KeyError", "none", 1, self, FALSE, <<>>, <<>>)      \* lines 82-83
    ELSE afterTry(tryBlock(self, other, self.state.flow + other.state.flow, pe), er)

\* The envelopes of the model: the engine failing in each of its three calls,
\* and five envelopes it may return: ascending, ascending with a repeated
\* value, descending, empty, and one whose temperature branch is shorter.
Envelopes ==
    {Envelope(f, <<>>, <<>>) : f \in {"AbstractState", "set_mole_fractions", "build_phase_envelope"}}
        \cup {Envelope("none", <<0, 2>>, <<3, 4>>),
              Envelope("none", <<1, 1, 2>>, <<3, 4, 5>>),
              Envelope("none", <<2, 0>>, <<3, 4>>),
              Envelope("none", <<>>, <<>>),
              Envelope("none", <<0, 2>>, <<3>>)}

\* the constructions of Spec: the engine reports one of two enthalpies, or
\* fails in the point evaluation
MixAnswers ==
    {Answer("none", "num", "num", 0), Answer("none", "num", "num", 3),
     Answer("update", "num", "num", 0)}

ConstructLeaf == Construct(LeafInputs, MixAnswers)

Add ==
    /\ Running
    /\ Len(heap) < MaxStreams
    /\ \E a \in DOMAIN heap, b \in DOMAIN heap, pe \in Envelopes, er \in MixAnswers :
          \E r \in {__add__(heap[a], heap[b], pe, er)} :
              /\ heap' = IF r.exc = "none"
                         THEN Append([heap EXCEPT ![a] = r.self], r.obj[1])
                         ELSE [heap EXCEPT ![a] = r.self]
              /\ src' = IF r.exc = "none" THEN Append(src, <<a, b>>) ELSE src
              /\ last' = [op |-> "add", a |-> a, b |-> b,
                          pe |-> IF r.asked_pe THEN <<pe>> ELSE <<>>,
                          er |-> IF r.asked_er THEN <<er>> ELSE <<>>,
                          exc |-> r.exc, caught |-> r.caught, step |-> r.step,
                          call |-> r.call,
                          ret |-> IF r.exc = "none" THEN Len(heap) + 1 ELSE 0]

Init == InitEmpty

Next == ConstructLeaf \/ Add

Spec == Init /\ [][Next]_vars

---------------------------------------------------------------------------
(* Properties of __add__ *)

HasFlow(s) == "flow" \in DOMAIN s.state

Min(x, y) == IF x <= y THEN x ELSE y

\* the streams that are the result of a combination
Results == {i \in DOMAIN heap : src[i] # <<>>}

\* C1: a call of __add__, returning or raising, leaves every stream that
\* existed before it as it was: composition, state, derived properties, and
\* no attribute added or overwritten.
C1_OperandsUnchanged ==
    [][\A i \in DOMAIN heap : heap'[i] = heap[i]]_vars

\* C2 as stated: whenever a step from 1 to 5 fails, nothing reaches the
\* caller from that failure and line 132's construction is made.
C2_EveryFailureDiscarded ==
    (last.op = "add" /\ last.step \in 1..5) =>
        /\ last.call # <<>>
        /\ last.exc \in {"none", "EngineError"}

\* the engine gave the last call no envelope, or an empty one
NoEnvelope ==
    /\ last.pe # <<>>
    /\ \/ last.pe[1].fail # "none"
       \/ last.pe[1].hmolar_liq = <<>>

\* C2, amended: a missing flow (step 1) reaches the caller as it is; a zero
\* flow sum (step 2) is discarded and the call then fails on the unbound
\* new_state; a failure of the envelope step (step 5) is discarded and the
\* constructor is called with the mixed composition, the flow sum, the lower
\* pressure and the left operand's temperature.
C2_FailurePolicy ==
    last.op = "add" =>
        LET A == heap[last.a]
            B == heap[last.b]
        IN  IF ~ (HasFlow(A) /\ HasFlow(B))
            THEN last.exc = "KeyError" /\ last.call = <<>> /\ last.caught = "none"
            ELSE IF A.state.flow + B.state.flow = 0
            THEN /\ last.exc = "UnboundLocalError"
                 /\ last.caught = "ZeroDivisionError"
                 /\ last.call = <<>>
            ELSE /\ last.call # <<>>
                 /\ last.exc # "none" <=> last.er[1].fail # "none"
                 /\ last.call[1].state.flow = A.state.flow + B.state.flow
                 /\ last.call[1].state.pres = Min(A.state.pres, B.state.pres)
                 /\ KeySet(last.call[1].composition)
                        = KeySet(A.composition) \cup KeySet(B.composition)
                 /\ NoEnvelope => last.step = 5
                 /\ last.step = 5 =>
                        /\ last.caught \in {"EngineError", "IndexError"}
                        /\ last.call[1].state.temp = A.state.temp
                 /\ last.exc = "none" =>
                        /\ heap[last.ret].composition = last.call[1].composition
                        /\ heap[last.ret].state = last.call[1].state

\* the envelope could not be built, the failure was discarded and a stream
\* with the left operand's temperature was returned
C2_Witness ==
    /\ last.op = "add"
    /\ last.step = 5
    /\ last.caught = "EngineError"
    /\ last.exc = "none"
    /\ heap[last.ret].state.temp = heap[last.a].state.temp
    /\ heap[last.ret].state.temp # heap[last.b].state.temp

\* C3: a call of __add__ with an operand whose flow is missing or negative
\* raises; no stream is returned.
C3_InvalidFlowRaises ==
    last.op = "add" =>
        \A s \in {heap[last.a], heap[last.b]} :
            (~ HasFlow(s) \/ (HasFlow(s) /\ s.state.flow < 0)) => last.exc # "none"

\* C5: the keys of a combination are the keys of its two operands, each
\* once, and for each key k
\*   R.fraction[k] * (fA + fB) = A.fraction.get(k, 0) * fA + B.fraction.get(k, 0) * fB.
C5_SpeciesConserved ==
    \A i \in Results :
        LET R == heap[i]
            A == heap[src[i][1]]
            B == heap[src[i][2]]
            fA == A.state.flow
            fB == B.state.flow
        IN  /\ fA + fB # 0
            /\ KeySet(R.composition) = KeySet(A.composition) \cup KeySet(B.composition)
            /\ Cardinality(KeySet(R.composition)) = Len(R.composition)
            /\ \A k \in KeySet(R.composition) :
                  RMulInt(get(R.composition, k, <<0, 1>>), fA + fB)
                      = RAdd(RMulInt(get(A.composition, k, <<0, 1>>), fA),
                             RMulInt(get(B.composition, k, <<0, 1>>), fB))

\* two streams of different flows, each with a component the other lacks,
\* were combined
C5_Witness ==
    \E i \in Results :
        LET A == heap[src[i][1]]
            B == heap[src[i][2]]
        IN  /\ A.state.flow = 2
            /\ B.state.flow = 1
            /\ "Acetone" \in KeySet(A.composition) \ KeySet(B.composition)
            /\ "Ethanol" \in KeySet(B.composition) \ KeySet(A.composition)
            /\ get(heap[i].composition, "Acetone", <<0, 1>>) = <<1, 6>>

\* the flows of the constructed streams a stream was combined from, summed
RECURSIVE LeafFlow(_)
LeafFlow(i) ==
    IF src[i] = <<>> THEN heap[i].state.flow
    ELSE LeafFlow(src[i][1]) + LeafFlow(src[i][2])

\* C6: the flow of a combination is the sum of the flows of its operands,
\* whatever became of the later steps, and so the sum of the flows of the
\* streams it was combined from.
C6_FlowConserved ==
    \A i \in Results :
        /\ heap[i].state.flow = heap[src[i][1]].state.flow + heap[src[i][2]].state.flow
        /\ heap[i].state.flow = LeafFlow(i)

\* a combination was combined again, and the envelope step of that call failed
C6_Witness ==
    /\ last.op = "add"
    /\ last.exc = "none"
    /\ last.step = 5
    /\ src[last.a] # <<>>
    /\ heap[last.ret].state.flow = 6

SameFractions(c, d) ==
    /\ KeySet(c) = KeySet(d)
    /\ \A k \in KeySet(c) : get(c, k, <<0, 1>>) = get(d, k, <<0, 1>>)

\* the two constructor calls ask the engine the same question
SameRequest(x, y) ==
    /\ SameFractions(x.composition, y.composition)
    /\ x.state.pres = y.state.pres
    /\ x.state.temp = y.state.temp

\* C7: self + other and other + self both return or both raise, and when they
\* return, the results have the same flow and the same fractions.  The engine
\* gives both calls the same envelope, and the same answer to the same
\* construction.
C7_OrderInsensitive ==
    \A a \in DOMAIN heap, b \in DOMAIN heap, pe \in Envelopes :
        \A er1 \in MixAnswers, er2 \in MixAnswers :
            LET x == __add__(heap[a], heap[b], pe, er1)
                y == __add__(heap[b], heap[a], pe, er2)
            IN  ((x.call # <<>> /\ y.call # <<>> /\ SameRequest(x.call[1], y.call[1]))
                    => er1 = er2)
                => /\ (x.exc = "none") <=> (y.exc = "none")
                   /\ x.exc = "none" =>
                        /\ x.obj[1].state.flow = y.obj[1].state.flow
                        /\ SameFractions(x.obj[1].composition, y.obj[1].composition)

\* C9: takeClosest is never run by __add__ on a list that is not ascending
\* (the list it was last run on stays on the left operand, lines 65-66).
C9_SearchedListAscending ==
    \A i \in DOMAIN heap :
        heap[i].myList # <<>> => IsAscending(heap[i].myList[1])

FirstIndex(H, v) ==
    CHOOSE i \in DOMAIN H : H[i] = v /\ \A j \in 1..(i - 1) : H[j] # v

\* C10: when the engine returns an envelope whose enthalpies H are non-empty
\* and ascending and whose temperatures T are as many, the stream returned
\* has temperature T[i], i the first index in H of the element of H nearest
\* to (HmolarA*flowA + HmolarB*flowB)/(flowA + flowB), the smaller of two
\* equally near.
C10_TemperatureResolved ==
    (/\ last.op = "add"
     /\ last.exc = "none"
     /\ last.pe # <<>>
     /\ last.pe[1].fail = "none"
     /\ last.pe[1].hmolar_liq # <<>>
     /\ IsAscending(last.pe[1].hmolar_liq)
     /\ Len(last.pe[1].T) = Len(last.pe[1].hmolar_liq)) =>
        LET A == heap[last.a]
            B == heap[last.b]
            H == last.pe[1].hmolar_liq
            target == Rat(A.Hmolar * A.state.flow + B.Hmolar * B.state.flow,
                          A.state.flow + B.state.flow)
        IN  heap[last.ret].state.temp
                = last.pe[1].T[FirstIndex(H, NearestSmallest(H, target))]

\* the nearest enthalpy occurs twice in the envelope and the temperature at
\* its first occurrence, which neither operand had, is the result's
C10_Witness ==
    /\ last.op = "add"
    /\ last.exc = "none"
    /\ last.pe = <<Envelope("none", <<1, 1, 2>>, <<3, 4, 5>>)>>
    /\ heap[last.a].Hmolar = 3
    /\ heap[last.b].Hmolar = 0
    /\ heap[last.a].state.flow = 1
    /\ heap[last.b].state.flow = 2
    /\ heap[last.ret].state.temp = 3
    /\ heap[last.a].state.temp # 3
    /\ heap[last.b].state.temp # 3

===========================================================================
